---- MODULE Spec2Model ----
(***************************************************************************)
(* ClusterTracksDBSCAN::operator() of                                      *)
(* RecoTracker/PixelVertexFinding/plugins/alpaka/clusterTracksDBSCAN.h:    *)
(* one block of nw threads clustering nt tracks along z.                   *)
(*                                                                         *)
(* Numbers.  Positions zt and eps are integers in units of 0.01, the       *)
(* variances ezt2 and er2mx in units of 0.0001 (the square of the position *)
(* unit) and errmax in units of 0.01, so that every comparison the kernel  *)
(* makes (dist > eps, dist*dist > chi2max*(ezt2[i]+ezt2[j]), ezt2 > er2mx, *)
(* zt[j] >= mz) is the same comparison on the integers.  int(zt[i] * 10.)  *)
(* is then the quotient of zt[i] by BinWidth truncated towards zero.       *)
(*                                                                         *)
(* Threads.  uniform_elements(acc, n) gives thread t the elements          *)
(* t, t+nw, t+2nw, ... in increasing order; idx[t] is the element thread t *)
(* handles next, pc[t] the loop (or statement) it is in.                   *)
(* alpaka::syncBlockThreads is an action all threads take together.        *)
(*                                                                         *)
(* The module also holds the class LuminosityBlockRange of                 *)
(* HLTrigger/Tools/scripts/convertToRaw (the --range option) with the      *)
(* loop that filters the lumisections by it; strings are sequences of      *)
(* characters.  SpecRange is its specification.                            *)
(***************************************************************************)
EXTENDS Integers, Sequences, FiniteSets, TLC

VARIABLES
  nt, zt, ezt2,             \* ws.ntrks(), ws.zt(), ws.ezt2(): the input
  minT, eps, errmax, chi2max,  \* the kernel's parameters
  nw,                       \* number of threads of the block
  izt, nn, iv,              \* ws.izt(), data.ndof(), ws.iv()
  off, bins,                \* the shared HistoContainer hist
  foundClusters,            \* shared counter of the clusters found
  nvFinal, nvIntermediate,  \* data.nvFinal(), ws.nvIntermediate()
  pc, idx, m,               \* per thread: position, loop index, walk variable
  status,                   \* "running", or "aborted" by a failed assertion
  value,                    \* convertToRaw: the string given to --range
  min_run, min_lumi,        \* fields of the LuminosityBlockRange
  max_run, max_lumi,
  run, lumi,                \* the line of edmFileUtil's output at hand
  inRange,                  \* what is_in_range(run, lumi) returned
  step                      \* "new", "built", "error" (ValueError), "checked"

\* The state of convertToRaw.
script == <<value, min_run, min_lumi, max_run, max_lumi, run, lumi, inRange,
            step>>

vars == <<nt, zt, ezt2, minT, eps, errmax, chi2max, nw, izt, nn, iv, off, bins,
          foundClusters, nvFinal, nvIntermediate, pc, idx, m, status, script>>

input == <<nt, zt, ezt2, minT, eps, errmax, chi2max, nw>>

-----------------------------------------------------------------------------
(* Bounds of the model. *)

\* Largest track count of the inputs chosen freely in every respect.
MaxItems == 2

\* Largest number of threads in the block.
MaxWorkers == 2

\* hist.capacity(): 16000 in the source, scaled down.
HistCapacity == 5

\* ::zVertex::MAXVTX: 1024 in the code base, scaled down with the capacity.
MAXVTX == 3

(* Program constants. *)

\* One bin of the histogram is 0.1 wide: int(zt[i] * 10.).
BinWidth == 10

INT8_MIN == -128

INT8_MAX == 127

\* Number of bins of HistoContainer<uint8_t, 256, ...>.
NBins == 256

\* The id given to noise in root marking.
NoiseMark == -9998

\* ::zVertex::MAXTRACKS is larger than the capacity of the histogram
\* (32 * 1024 against 16000); it keeps that relation here.
MAXTRACKS == 2 * HistCapacity + 1

\* The values the freely chosen inputs are drawn from.
\* 0.0, 0.03 and 0.08: with eps = 0.05 the middle one is within eps of both
\* others, which are not within eps of each other.
ZValues == {0, 3, 8}

\* A variance below and one above er2mx = 9 (errmax = 0.03).
Ezt2Values == {1, 16}

MinTValues == {0, 1, 2}

Chi2Values == {1, 9}

\* The block has one thread (the serial back-end) or MaxWorkers threads.
WorkerCounts == {1, MaxWorkers}

-----------------------------------------------------------------------------
(* Helpers. *)

Items == 0 .. (nt - 1)

Threads == 0 .. (nw - 1)

Abs(x) == IF x < 0 THEN -x ELSE x

\* C++ conversion of a floating-point quotient to int: towards zero.
TruncDiv(a, b) == IF a >= 0 THEN a \div b ELSE -((-a) \div b)

\* std::clamp
Clamp(x, lo, hi) == IF x < lo THEN lo ELSE IF x > hi THEN hi ELSE x

\* a / b rounded to the nearest integer, halves away from zero (std::round).
RoundDiv(a, b) ==
  IF a >= 0 THEN (2 * a + b) \div (2 * b) ELSE -((2 * (-a) + b) \div (2 * b))

\* BinOf rounding to the nearest bucket (int(std::round(zt[i] * 10.))).
BinOf_Round(z) == Clamp(RoundDiv(z, BinWidth), INT8_MIN, INT8_MAX) - INT8_MIN

\* BinOf with buckets half as wide (int(zt[i] * 20.)).
BinOf_Narrow(z) == Clamp(TruncDiv(z, 5), INT8_MIN, INT8_MAX) - INT8_MIN

\* izt[i] = clamp(int(zt[i] * 10.), INT8_MIN, INT8_MAX) - INT8_MIN
BinOf(z) == Clamp(TruncDiv(z, BinWidth), INT8_MIN, INT8_MAX) - INT8_MIN

\* er2mx without the square: the ceiling is errmax as passed.  errmax is
\* held in units of 0.01 and the variances in units of 0.0001, hence the 100.
er2mx_AsPassed == 100 * errmax

\* auto er2mx = errmax * errmax
er2mx == errmax * errmax


\* Content of memory this invocation has not written yet.  The kernel writes
\* every one of these locations before it reads it.
Unwritten == 0 - 1

-----------------------------------------------------------------------------
(* The histogram (cms::alpakatools::HistoContainer). *)

\* totbins(): one offset more than there are bins.
HistBins == 0 .. NBins

\* The offsets the kernel reads or updates one by one: those of the bins of
\* the tracks (count, fill), of the begin of the bin before and of the end of
\* the bin after (forEachInBins with radius 1), and the last one (size).
\* The state keeps off for these only; every other offset is zeroed and
\* scanned with them, counts no track, and is never read.
OffsetsRead ==
  {b \in HistBins : \E i \in Items, d \in {-1, 0, 1, 2} : b = BinOf(zt[i]) + d}
    \cup {NBins}

\* hist.count(acc, b): atomicAdd(&off[b], 1)
HistCount(o, b) == [o EXCEPT ![b] = @ + 1]

RECURSIVE SumOver(_, _)
SumOver(o, S) ==
  IF S = {} THEN 0
  ELSE LET b == CHOOSE x \in S : TRUE IN o[b] + SumOver(o, S \ {b})

\* hist.finalize(acc, hws): the prefix scan; off[b] becomes the sum of the
\* counts of the bins up to and including b.
HistFinalize(o) ==
  [b \in DOMAIN o |-> SumOver(o, {k \in DOMAIN o : k <= b})]

\* hist.size(): the last offset.
HistSize(o) == o[NBins]

\* hist.fill(acc, b, j): w = atomicSub(&off[b], 1) - 1; bins[w] = j
HistFillSlot(o, b) == o[b] - 1

\* ForEachInBins with radius 0: the bucket of the key only.
ForEachInBins_OwnBucket(key) ==
  [p \in 1 .. (off[key + 1] - off[key]) |-> bins[off[key] + p - 1]]

\* forEachInBins(hist, key, 1, f): the items f is called with, in call order:
\* the slots from the begin of bin max(0, key-1) to the end of bin
\* min(nbins-1, key+1).
ForEachInBins(key) ==
  LET bs == IF key - 1 < 0 THEN 0 ELSE key - 1
      be == IF key + 1 > NBins - 1 THEN NBins - 1 ELSE key + 1
      lo == off[bs]
      hi == off[be + 1]
  IN  [p \in 1 .. (hi - lo) |-> bins[lo + p - 1]]

-----------------------------------------------------------------------------
(* The state before the kernel starts. *)

Fresh ==
  /\ izt = [i \in Items |-> 0]
  /\ nn = [i \in Items |-> Unwritten]
  /\ iv = [i \in Items |-> Unwritten]
  /\ off = [b \in OffsetsRead |-> Unwritten]
  /\ bins = [p \in 0 .. (HistCapacity - 1) |-> Unwritten]
  /\ foundClusters = Unwritten
  /\ nvFinal = Unwritten
  /\ nvIntermediate = Unwritten
  /\ pc = [t \in Threads |-> "zero"]
  /\ idx = [t \in Threads |-> t]
  /\ m = [t \in Threads |-> 0]
  /\ status = "running"

\* Every input of up to MaxItems tracks, with chi2max = 9.
InitSmall ==
  /\ nt \in 0 .. MaxItems
  /\ zt \in [Items -> ZValues]
  /\ ezt2 \in [Items -> Ezt2Values]
  /\ minT \in MinTValues
  /\ eps = 5
  /\ errmax = 3
  /\ chi2max = 9
  /\ nw \in WorkerCounts
  /\ Fresh

\* Every input of three tracks with a positive minT.
InitTriple ==
  /\ nt = 3
  /\ zt \in [Items -> ZValues]
  /\ ezt2 \in [Items -> Ezt2Values]
  /\ minT \in MinTValues \ {0}
  /\ eps = 5
  /\ errmax = 3
  /\ chi2max \in Chi2Values
  /\ nw \in WorkerCounts
  /\ Fresh

\* The example of the specification: positions 0.0, 0.01, 0.02, 5.0, 5.01,
\* variances 0.0001, eps 0.05, minT 2, errmax 1.0, chi2max 9.
ExampleZt == <<0, 1, 2, 500, 501>>

InitExample ==
  /\ nt = Len(ExampleZt)
  /\ zt = [i \in Items |-> ExampleZt[i + 1]]
  /\ ezt2 = [i \in Items |-> 1]
  /\ minT = 2
  /\ eps = 5
  /\ errmax = 100
  /\ chi2max = 9
  /\ nw \in WorkerCounts
  /\ Fresh

\* Inputs at the capacity of the histogram and one above it: the tracks are
\* evenly spaced from -0.04 on, 0.04 apart (one chain) or 0.08 apart (all
\* isolated).
InitCapacity ==
  /\ nt \in {HistCapacity, HistCapacity + 1}
  /\ \E d \in {4, 8} : zt = [i \in Items |-> d * i - 4]
  /\ ezt2 = [i \in Items |-> 1]
  /\ minT \in {0, 1}
  /\ eps = 5
  /\ errmax = 3
  /\ chi2max = 9
  /\ nw \in WorkerCounts
  /\ Fresh

\* Positions at the edges of the buckets: those clamped into the first bucket
\* (below -12.8) and next to them, those on both sides of zero (where int()
\* truncates towards zero), and those clamped into the last bucket (12.8 and
\* above) and next to them.
BucketRegions ==
  {{-1290, -1280, -1275}, {-10, -5, 0, 5, 10}, {1265, 1275, 1285}}

\* eps below the bucket width and equal to it.
BucketEps == {5, BinWidth}

\* Two or three tracks of one region, variances below the ceiling.
InitBuckets ==
  /\ nt \in {2, 3}
  /\ \E R \in BucketRegions : zt \in [Items -> R]
  /\ ezt2 = [i \in Items |-> 1]
  /\ minT = 1
  /\ eps \in BucketEps
  /\ errmax = 3
  /\ chi2max = 9
  /\ nw \in WorkerCounts
  /\ Fresh

-----------------------------------------------------------------------------
(* HLTrigger/Tools/scripts/convertToRaw: class LuminosityBlockRange.  *)

\* Largest run number and largest lumisection number.
MaxRun == 3
MaxLumi == 3

Runs == 1 .. MaxRun
Lumis == 1 .. MaxLumi

DigitChars == <<"0", "1", "2", "3", "4", "5", "6", "7", "8", "9">>

Str_min == <<"m", "i", "n">>
Str_max == <<"m", "a", "x">>
Str_all == <<"a", "l", "l">>

\* What a field of the range is written as: nothing, min, max, or a number
\* of one digit.
NumberMax == IF MaxRun > MaxLumi THEN MaxRun ELSE MaxLumi
FieldStrings ==
  {<<>>, Str_min, Str_max} \cup {<<DigitChars[d + 1]>> : d \in 0 .. NumberMax}

\* LUMI and RUN:LUMI.
PairStrings ==
  FieldStrings \cup {f1 \o <<":">> \o f2 : f1, f2 \in FieldStrings}

\* Strings the constructor raises ValueError for.
BadStrings ==
  {<<"1", "-", "2", "-", "3">>, <<"1", ":", "2", ":", "3">>, <<"x">>,
   <<"1", ":", "a", "l", "l">>}

\* The strings the option is given: a pair, two pairs with - between them,
\* all, and the malformed ones.
RangeStrings ==
  PairStrings \cup {p1 \o <<"-">> \o p2 : p1, p2 \in PairStrings}
    \cup {Str_all} \cup BadStrings

\* str.count(ch)
StrCount(s, ch) == Cardinality({k \in 1 .. Len(s) : s[k] = ch})

\* str.split(ch) of a string with exactly one ch.
StrSplit(s, ch) ==
  LET k == CHOOSE k \in 1 .. Len(s) : s[k] = ch
  IN  <<SubSeq(s, 1, k - 1), SubSeq(s, k + 1, Len(s))>>

IsDigit(c) == \E d \in 1 .. Len(DigitChars) : DigitChars[d] = c

DigitValue(c) == (CHOOSE d \in 1 .. Len(DigitChars) : DigitChars[d] = c) - 1

\* int(s) succeeds (of the strings at hand: s is a string of digits).
IsInt(s) == Len(s) > 0 /\ \A k \in 1 .. Len(s) : IsDigit(s[k])

RECURSIVE IntOf(_)
\* int(s)
IntOf(s) ==
  IF Len(s) = 0 THEN 0
  ELSE 10 * IntOf(SubSeq(s, 1, Len(s) - 1)) + DigitValue(s[Len(s)])

\* parse_value raises ValueError.
parse_value_fails(s) == s \notin {<<>>, Str_min, Str_max} /\ ~IsInt(s)

\* parse_value
parse_value(s) == IF s \in {<<>>, Str_min, Str_max} THEN 0 ELSE IntOf(s)

\* (first, second) of parse_value_pair.
PairFields(s) ==
  IF StrCount(s, ":") = 1 THEN StrSplit(s, ":") ELSE <<<<>>, s>>

parse_value_pair_fails(s) ==
  \/ StrCount(s, ":") > 1
  \/ parse_value_fails(PairFields(s)[1])
  \/ parse_value_fails(PairFields(s)[2])

\* parse_value_pair
parse_value_pair(s) ==
  <<parse_value(PairFields(s)[1]), parse_value(PairFields(s)[2])>>

\* (first, second) of parse_range.
RangePairs(s) ==
  IF StrCount(s, "-") = 1 THEN StrSplit(s, "-") ELSE <<s, s>>

parse_range_fails(s) ==
  \/ StrCount(s, "-") > 1
  \/ parse_value_pair_fails(RangePairs(s)[1])
  \/ parse_value_pair_fails(RangePairs(s)[2])

\* parse_range
parse_range(s) ==
  <<parse_value_pair(RangePairs(s)[1]), parse_value_pair(RangePairs(s)[2])>>

\* is_in_range
is_in_range(r, l) ==
  /\ \/ (min_run = 0 \/ min_run = r) /\ (min_lumi = 0 \/ min_lumi <= l)
     \/ (min_run # 0 /\ min_run < r)
  /\ \/ (max_run = 0 \/ max_run = r) /\ (max_lumi = 0 \/ max_lumi >= l)
     \/ (min_run # 0 /\ max_run > r)

\* No range has been given yet.
ScriptIdle ==
  /\ min_run = 0 /\ min_lumi = 0 /\ max_run = 0 /\ max_lumi = 0
  /\ run = 0 /\ lumi = 0 /\ inRange = FALSE
  /\ step = "new"

\* No kernel is running.
KernelIdle ==
  /\ nt = 0 /\ zt = <<>> /\ ezt2 = <<>>
  /\ minT = 0 /\ eps = 0 /\ errmax = 0 /\ chi2max = 0
  /\ nw = 0
  /\ Fresh

InitRange == value \in RangeStrings /\ ScriptIdle /\ KernelIdle

\* LuminosityBlockRange.__init__(value)
Construct ==
  /\ step = "new"
  /\ IF value = <<>> \/ value = Str_all
       THEN step' = "built"
            /\ UNCHANGED <<min_run, min_lumi, max_run, max_lumi>>
     ELSE IF parse_range_fails(value)
       THEN step' = "error"
            /\ UNCHANGED <<min_run, min_lumi, max_run, max_lumi>>
     ELSE /\ min_run' = parse_range(value)[1][1]
          /\ min_lumi' = parse_range(value)[1][2]
          /\ max_run' = parse_range(value)[2][1]
          /\ max_lumi' = parse_range(value)[2][2]
          /\ step' = "built"
  /\ UNCHANGED <<value, run, lumi, inRange>>
  /\ UNCHANGED <<input, izt, nn, iv, off, bins, foundClusters, nvFinal,
                 nvIntermediate, pc, idx, m, status>>

\* A line "run lumi events" of the output of edmFileUtil: the range decides
\* whether it is skipped.
CheckLine(r, l) ==
  /\ step \in {"built", "checked"}
  /\ run' = r /\ lumi' = l
  /\ inRange' = is_in_range(r, l)
  /\ step' = "checked"
  /\ UNCHANGED <<value, min_run, min_lumi, max_run, max_lumi>>
  /\ UNCHANGED <<input, izt, nn, iv, off, bins, foundClusters, nvFinal,
                 nvIntermediate, pc, idx, m, status>>

NextRange ==
  \/ Construct
  \/ \E r \in Runs, l \in Lumis : CheckLine(r, l)

SpecRange == InitRange /\ [][NextRange]_vars

-----------------------------------------------------------------------------

Init ==
  /\ InitSmall \/ InitTriple \/ InitExample \/ InitCapacity \/ InitBuckets
  /\ value = <<>> /\ ScriptIdle

-----------------------------------------------------------------------------
(* The loop bodies of the kernel, as functions of the state they read. *)

\* DBSCAN core rule: nn[j] >= minT
IsCore(j) == nn[j] >= minT

RECURSIVE CountLoop(_, _, _, _)
\* The lambda of "count neighbours", called for seq[k], seq[k+1], ...
CountLoop(i, seq, k, cnt) ==
  IF k > Len(seq) THEN cnt
  ELSE LET j == seq[k]
       IN  IF i = j THEN CountLoop(i, seq, k + 1, cnt)
           ELSE IF Abs(zt[i] - zt[j]) > eps THEN CountLoop(i, seq, k + 1, cnt)
           ELSE CountLoop(i, seq, k + 1, cnt + 1)

RECURSIVE CountLoop_Chi2(_, _, _, _)
CountLoop_Chi2(i, seq, k, cnt) ==
  IF k > Len(seq) THEN cnt
  ELSE LET j == seq[k]
           dist == Abs(zt[i] - zt[j])
       IN  IF i = j THEN CountLoop_Chi2(i, seq, k + 1, cnt)
           ELSE IF dist > eps THEN CountLoop_Chi2(i, seq, k + 1, cnt)
           ELSE IF dist * dist > chi2max * (ezt2[i] + ezt2[j])
                THEN CountLoop_Chi2(i, seq, k + 1, cnt)
           ELSE CountLoop_Chi2(i, seq, k + 1, cnt + 1)

\* CountNeighbours with the test of line 111 not commented out: a neighbour
\* counts only when it passes the chi2 test.
CountNeighbours_Chi2(i) ==
  IF ezt2[i] > er2mx THEN nn[i]
  ELSE CountLoop_Chi2(i, ForEachInBins(izt[i]), 1, nn[i])

\* CountNeighbours without "if (i == j) return": the item counts itself.
CountNeighbours_CountsSelf(i) ==
  IF ezt2[i] > er2mx THEN nn[i]
  ELSE CountLoop(i, ForEachInBins(izt[i]), 1, nn[i]) + 1

\* nn[i] after the body of "count neighbours" for item i.
CountNeighbours(i) ==
  IF ezt2[i] > er2mx THEN nn[i]
  ELSE CountLoop(i, ForEachInBins(izt[i]), 1, nn[i])

RECURSIVE SeedLoop(_, _, _, _, _)
\* The lambda of "find NN with smaller z": mz and iv[i] as it goes.
SeedLoop(i, seq, k, mz, ivi) ==
  IF k > Len(seq) THEN ivi
  ELSE LET j == seq[k]
       IN  IF zt[j] >= mz THEN SeedLoop(i, seq, k + 1, mz, ivi)
           ELSE IF nn[j] < minT THEN SeedLoop(i, seq, k + 1, mz, ivi)
           ELSE IF Abs(zt[i] - zt[j]) > eps THEN SeedLoop(i, seq, k + 1, mz, ivi)
           ELSE SeedLoop(i, seq, k + 1, zt[j], j)

RECURSIVE SeedLoop_NoCoreRule(_, _, _, _, _)
SeedLoop_NoCoreRule(i, seq, k, mz, ivi) ==
  IF k > Len(seq) THEN ivi
  ELSE LET j == seq[k]
       IN  IF zt[j] >= mz THEN SeedLoop_NoCoreRule(i, seq, k + 1, mz, ivi)
           ELSE IF Abs(zt[i] - zt[j]) > eps
                THEN SeedLoop_NoCoreRule(i, seq, k + 1, mz, ivi)
           ELSE SeedLoop_NoCoreRule(i, seq, k + 1, zt[j], j)

\* FindNN without "if (nn[j] < minT) return": links to any nearby track.
FindNN_NoCoreRule(i) ==
  IF nn[i] < minT THEN iv[i]
  ELSE SeedLoop_NoCoreRule(i, ForEachInBins(izt[i]), 1, zt[i], iv[i])

RECURSIVE SeedLoop_NoDist(_, _, _, _, _)
SeedLoop_NoDist(i, seq, k, mz, ivi) ==
  IF k > Len(seq) THEN ivi
  ELSE LET j == seq[k]
       IN  IF zt[j] >= mz THEN SeedLoop_NoDist(i, seq, k + 1, mz, ivi)
           ELSE IF nn[j] < minT THEN SeedLoop_NoDist(i, seq, k + 1, mz, ivi)
           ELSE SeedLoop_NoDist(i, seq, k + 1, zt[j], j)

\* FindNN without "if (dist > eps) return": links across more than eps.
FindNN_NoDist(i) ==
  IF nn[i] < minT THEN iv[i]
  ELSE SeedLoop_NoDist(i, ForEachInBins(izt[i]), 1, zt[i], iv[i])

RECURSIVE SeedLoop_NonStrict(_, _, _, _, _)
SeedLoop_NonStrict(i, seq, k, mz, ivi) ==
  IF k > Len(seq) THEN ivi
  ELSE LET j == seq[k]
       IN  IF zt[j] > mz \/ j = i
             THEN SeedLoop_NonStrict(i, seq, k + 1, mz, ivi)
           ELSE IF nn[j] < minT
             THEN SeedLoop_NonStrict(i, seq, k + 1, mz, ivi)
           ELSE IF Abs(zt[i] - zt[j]) > eps
             THEN SeedLoop_NonStrict(i, seq, k + 1, mz, ivi)
           ELSE SeedLoop_NonStrict(i, seq, k + 1, zt[j], j)

\* FindNN with "if (zt[j] > mz || j == i) return": a track is linked to
\* another one at the same position too.
FindNN_NonStrict(i) ==
  IF nn[i] < minT THEN iv[i]
  ELSE SeedLoop_NonStrict(i, ForEachInBins(izt[i]), 1, zt[i], iv[i])

\* FindNN without "if (nn[i] < minT) continue": non-core tracks are linked
\* too.
FindNN_SeedsAll(i) == SeedLoop(i, ForEachInBins(izt[i]), 1, zt[i], iv[i])

\* iv[i] after the body of "find NN with smaller z" for item i.
FindNN(i) ==
  IF nn[i] < minT THEN iv[i]
  ELSE SeedLoop(i, ForEachInBins(izt[i]), 1, zt[i], iv[i])

RECURSIVE EdgeLoop(_, _, _, _, _, _)
\* The lambda of "collect edges": mdist and iv[i] as it goes; ivr is the array
\* iv the lambda reads iv[j] from.
EdgeLoop(i, seq, k, mdist, ivi, ivr) ==
  IF k > Len(seq) THEN ivi
  ELSE LET j == seq[k]
           dist == Abs(zt[i] - zt[j])
       IN  IF nn[j] < minT THEN EdgeLoop(i, seq, k + 1, mdist, ivi, ivr)
           ELSE IF dist > mdist THEN EdgeLoop(i, seq, k + 1, mdist, ivi, ivr)
           ELSE IF dist * dist > chi2max * (ezt2[i] + ezt2[j])
                THEN EdgeLoop(i, seq, k + 1, mdist, ivi, ivr)
           ELSE EdgeLoop(i, seq, k + 1, dist, ivr[j], ivr)

RECURSIVE EdgeLoop_ToPoint(_, _, _, _, _, _)
EdgeLoop_ToPoint(i, seq, k, mdist, ivi, ivr) ==
  IF k > Len(seq) THEN ivi
  ELSE LET j == seq[k]
           dist == Abs(zt[i] - zt[j])
       IN  IF nn[j] < minT
             THEN EdgeLoop_ToPoint(i, seq, k + 1, mdist, ivi, ivr)
           ELSE IF dist > mdist
             THEN EdgeLoop_ToPoint(i, seq, k + 1, mdist, ivi, ivr)
           ELSE IF dist * dist > chi2max * (ezt2[i] + ezt2[j])
             THEN EdgeLoop_ToPoint(i, seq, k + 1, mdist, ivi, ivr)
           ELSE EdgeLoop_ToPoint(i, seq, k + 1, dist, j, ivr)

\* CollectEdge with "iv[i] = j" for "iv[i] = iv[j]": the track is attached to
\* the closest core, not to that core's root.
CollectEdge_ToPoint(i) ==
  IF nn[i] >= minT THEN iv[i]
  ELSE EdgeLoop_ToPoint(i, ForEachInBins(izt[i]), 1, eps, iv[i], iv)

RECURSIVE EdgeLoop_KeepsMdist(_, _, _, _, _, _)
EdgeLoop_KeepsMdist(i, seq, k, mdist, ivi, ivr) ==
  IF k > Len(seq) THEN ivi
  ELSE LET j == seq[k]
           dist == Abs(zt[i] - zt[j])
       IN  IF nn[j] < minT
             THEN EdgeLoop_KeepsMdist(i, seq, k + 1, mdist, ivi, ivr)
           ELSE IF dist > mdist
             THEN EdgeLoop_KeepsMdist(i, seq, k + 1, mdist, ivi, ivr)
           ELSE IF dist * dist > chi2max * (ezt2[i] + ezt2[j])
             THEN EdgeLoop_KeepsMdist(i, seq, k + 1, mdist, ivi, ivr)
           ELSE EdgeLoop_KeepsMdist(i, seq, k + 1, mdist, ivr[j], ivr)

\* CollectEdge without "mdist = dist": the last core found in range is kept,
\* not the nearest.
CollectEdge_KeepsMdist(i) ==
  IF nn[i] >= minT THEN iv[i]
  ELSE EdgeLoop_KeepsMdist(i, ForEachInBins(izt[i]), 1, eps, iv[i], iv)

\* iv[i] after the body of "collect edges" for item i.
CollectEdge(i) ==
  IF nn[i] >= minT THEN iv[i]
  ELSE EdgeLoop(i, ForEachInBins(izt[i]), 1, eps, iv[i], iv)

\* RootId without the shift by one (iv[i] = -old): the first root gets 0,
\* which is not negative.
RootId_NoShift(old) == -old

\* RootId numbering the clusters from 1.
RootId_FromOne(old) == -(old + 2)

\* iv[i] = -(old + 1) for the root of a cluster, old the counter before the
\* atomicInc
RootId(old) == -(old + 1)

\* FinalId without the shift by one (iv[i] = -iv[i]).
FinalId_NoShift(v) == -v

\* iv[i] = -iv[i] - 1
FinalId(v) == -v - 1

-----------------------------------------------------------------------------
(* The kernel, statement by statement. *)

Running(t) == status = "running" /\ t \in Threads

\* A thread that has left the loop it is in.
LoopDone(t, ph) == pc[t] = ph /\ idx[t] >= nt

\* SyncAfterLoop without the barrier: the threads that have left the loop go
\* on while the others are still in it.
SyncAfterLoop_NoWait(ph, next) ==
  /\ status = "running"
  /\ \E t \in Threads : LoopDone(t, ph)
  /\ pc' = [t \in Threads |-> IF LoopDone(t, ph) THEN next ELSE pc[t]]
  /\ idx' = [t \in Threads |-> IF LoopDone(t, ph) THEN t ELSE idx[t]]

\* alpaka::syncBlockThreads(acc) after loop ph: every thread has left the loop,
\* and all go on to the statement next.
SyncAfterLoop(ph, next) ==
  /\ status = "running"
  /\ \A t \in Threads : LoopDone(t, ph)
  /\ pc' = [t \in Threads |-> next]
  /\ idx' = [t \in Threads |-> t]

\* for (auto j : uniform_elements(acc, Hist::totbins())) hist.off[j] = 0;
\* the thread's whole share of the offsets in one step.
ZeroHist(t) ==
  /\ Running(t) /\ pc[t] = "zero"
  /\ off' = [b \in DOMAIN off |-> IF b % nw = t THEN 0 ELSE off[b]]
  /\ pc' = [pc EXCEPT ![t] = "sync68"]
  /\ UNCHANGED <<script, input, izt, nn, iv, bins, foundClusters, nvFinal,
                 nvIntermediate, idx, m, status>>

Sync68 ==
  /\ status = "running"
  /\ \A t \in Threads : pc[t] = "sync68"
  /\ pc' = [t \in Threads |-> "assertcap"]
  /\ UNCHANGED <<script, input, izt, nn, iv, off, bins, foundClusters, nvFinal,
                 nvIntermediate, idx, m, status>>

\* CapacityOk with < for <=.
CapacityOk_Strict == nt < HistCapacity

\* ALPAKA_ASSERT_OFFLOAD(static_cast<int>(nt) <= hist.capacity())
CapacityOk == nt <= HistCapacity

AssertCapacity(t) ==
  /\ Running(t) /\ pc[t] = "assertcap"
  /\ IF CapacityOk
       THEN pc' = [pc EXCEPT ![t] = "count"] /\ UNCHANGED status
       ELSE status' = "aborted" /\ UNCHANGED pc
  /\ UNCHANGED <<script, input, izt, nn, iv, off, bins, foundClusters, nvFinal,
                 nvIntermediate, idx, m>>

\* fill hist: one item of the loop at lines 78-88.
CountItem(t) ==
  /\ Running(t) /\ pc[t] = "count" /\ idx[t] < nt
  /\ LET i == idx[t] IN
       IF i < MAXTRACKS
         THEN /\ izt' = [izt EXCEPT ![i] = BinOf(zt[i])]
              /\ off' = HistCount(off, BinOf(zt[i]))
              /\ iv' = [iv EXCEPT ![i] = i]
              /\ nn' = [nn EXCEPT ![i] = 0]
              /\ idx' = [idx EXCEPT ![t] = @ + nw]
              /\ UNCHANGED status
         ELSE /\ status' = "aborted"
              /\ UNCHANGED <<izt, off, iv, nn, idx>>
  /\ UNCHANGED <<script, input, bins, foundClusters, nvFinal, nvIntermediate, pc, m>>

Sync89 ==
  /\ SyncAfterLoop("count", "finalize")
  /\ UNCHANGED <<script, input, izt, nn, iv, off, bins, foundClusters, nvFinal,
                 nvIntermediate, m, status>>

\* Lines 90-94: hws is cleared, the block synchronises, hist.finalize runs the
\* prefix scan as one block-wide operation, and the block synchronises again.
Finalize ==
  /\ status = "running"
  /\ \A t \in Threads : pc[t] = "finalize"
  /\ off' = HistFinalize(off)
  /\ pc' = [t \in Threads |-> "asserthist"]
  /\ UNCHANGED <<script, input, izt, nn, iv, bins, foundClusters, nvFinal,
                 nvIntermediate, idx, m, status>>

\* ALPAKA_ASSERT_OFFLOAD(hist.size() == nt)
AssertHistSize(t) ==
  /\ Running(t) /\ pc[t] = "asserthist"
  /\ IF HistSize(off) = nt
       THEN pc' = [pc EXCEPT ![t] = "fill"] /\ UNCHANGED status
       ELSE status' = "aborted" /\ UNCHANGED pc
  /\ UNCHANGED <<script, input, izt, nn, iv, off, bins, foundClusters, nvFinal,
                 nvIntermediate, idx, m>>

\* FillItem with the key for the item (hist.fill(acc, izt[i], izt[i])).
FillItem_StoresKey(t) ==
  /\ Running(t) /\ pc[t] = "fill" /\ idx[t] < nt
  /\ LET i == idx[t]
         w == HistFillSlot(off, izt[i])
     IN  /\ off' = [off EXCEPT ![izt[i]] = w]
         /\ bins' = [bins EXCEPT ![w] = izt[i]]
  /\ idx' = [idx EXCEPT ![t] = @ + nw]
  /\ UNCHANGED <<script, input, izt, nn, iv, foundClusters, nvFinal, nvIntermediate,
                 pc, m, status>>

\* hist.fill(acc, izt[i], uint32_t(i))
FillItem(t) ==
  /\ Running(t) /\ pc[t] = "fill" /\ idx[t] < nt
  /\ LET i == idx[t]
         w == HistFillSlot(off, izt[i])
     IN  /\ off' = [off EXCEPT ![izt[i]] = w]
         /\ bins' = [bins EXCEPT ![w] = i]
  /\ idx' = [idx EXCEPT ![t] = @ + nw]
  /\ UNCHANGED <<script, input, izt, nn, iv, foundClusters, nvFinal, nvIntermediate,
                 pc, m, status>>

Sync99 ==
  /\ SyncAfterLoop("fill", "nn")
  /\ UNCHANGED <<script, input, izt, nn, iv, off, bins, foundClusters, nvFinal,
                 nvIntermediate, m, status>>

\* count neighbours: one item of the loop at lines 102-116.
CountNN(t) ==
  /\ Running(t) /\ pc[t] = "nn" /\ idx[t] < nt
  /\ nn' = [nn EXCEPT ![idx[t]] = CountNeighbours(idx[t])]
  /\ idx' = [idx EXCEPT ![t] = @ + nw]
  /\ UNCHANGED <<script, input, izt, iv, off, bins, foundClusters, nvFinal,
                 nvIntermediate, pc, m, status>>

Sync118 ==
  /\ SyncAfterLoop("nn", "seed")
  /\ UNCHANGED <<script, input, izt, nn, iv, off, bins, foundClusters, nvFinal,
                 nvIntermediate, m, status>>

\* find NN with smaller z: one item of the loop at lines 121-138.
Seed(t) ==
  /\ Running(t) /\ pc[t] = "seed" /\ idx[t] < nt
  /\ iv' = [iv EXCEPT ![idx[t]] = FindNN(idx[t])]
  /\ idx' = [idx EXCEPT ![t] = @ + nw]
  /\ UNCHANGED <<script, input, izt, nn, off, bins, foundClusters, nvFinal,
                 nvIntermediate, pc, m, status>>

Sync140 ==
  /\ SyncAfterLoop("seed", "load")
  /\ UNCHANGED <<script, input, izt, nn, iv, off, bins, foundClusters, nvFinal,
                 nvIntermediate, m, status>>

\* consolidate graph: auto m = iv[i];
ConsolidateLoad(t) ==
  /\ Running(t) /\ pc[t] = "load" /\ idx[t] < nt
  /\ m' = [m EXCEPT ![t] = iv[idx[t]]]
  /\ pc' = [pc EXCEPT ![t] = "walk"]
  /\ UNCHANGED <<script, input, izt, nn, iv, off, bins, foundClusters, nvFinal,
                 nvIntermediate, idx, status>>

\* WalkEnds without the loop: iv[i] = m right after auto m = iv[i].
WalkEnds_NoWalk(t) == t \in Threads

\* WalkEnds with "if" for "while": the walk ends after one hop at the latest.
WalkEnds_OneHop(t) == m[t] = iv[m[t]] \/ m[t] # iv[idx[t]]

\* WalkEnds testing the next item (while (iv[m] != iv[iv[m]])): the walk ends
\* one link before the root.
WalkEnds_OneEarly(t) == iv[m[t]] = iv[iv[m[t]]]

\* The walk of thread t ends: the condition m != iv[m] of the loop is false.
WalkEnds(t) == m[t] = iv[m[t]]

\* while (m != iv[m]) m = iv[m];  one iteration.
ConsolidateWalk(t) ==
  /\ Running(t) /\ pc[t] = "walk"
  /\ ~WalkEnds(t)
  /\ m' = [m EXCEPT ![t] = iv[m[t]]]
  /\ UNCHANGED <<script, input, izt, nn, iv, off, bins, foundClusters, nvFinal,
                 nvIntermediate, pc, idx, status>>

\* The loop ends at m == iv[m], then iv[i] = m.
ConsolidateStore(t) ==
  /\ Running(t) /\ pc[t] = "walk"
  /\ WalkEnds(t)
  /\ iv' = [iv EXCEPT ![idx[t]] = m[t]]
  /\ idx' = [idx EXCEPT ![t] = @ + nw]
  /\ pc' = [pc EXCEPT ![t] = "load"]
  /\ UNCHANGED <<script, input, izt, nn, off, bins, foundClusters, nvFinal,
                 nvIntermediate, m, status>>

Sync159 ==
  /\ SyncAfterLoop("load", "edges")
  /\ UNCHANGED <<script, input, izt, nn, iv, off, bins, foundClusters, nvFinal,
                 nvIntermediate, m, status>>

\* collect edges: one item of the loop at lines 197-214.
Edges(t) ==
  /\ Running(t) /\ pc[t] = "edges" /\ idx[t] < nt
  /\ iv' = [iv EXCEPT ![idx[t]] = CollectEdge(idx[t])]
  /\ idx' = [idx EXCEPT ![t] = @ + nw]
  /\ UNCHANGED <<script, input, izt, nn, off, bins, foundClusters, nvFinal,
                 nvIntermediate, pc, m, status>>

\* foundClusters = 0, by every thread, after its share of the edges.
ResetFound(t) ==
  /\ Running(t) /\ LoopDone(t, "edges")
  /\ foundClusters' = 0
  /\ pc' = [pc EXCEPT ![t] = "sync218"]
  /\ UNCHANGED <<script, input, izt, nn, iv, off, bins, nvFinal, nvIntermediate, idx,
                 m, status>>

Sync218 ==
  /\ status = "running"
  /\ \A t \in Threads : pc[t] = "sync218"
  /\ pc' = [t \in Threads |-> "mark"]
  /\ idx' = [t \in Threads |-> t]
  /\ UNCHANGED <<script, input, izt, nn, iv, off, bins, foundClusters, nvFinal,
                 nvIntermediate, m, status>>

\* MarkValue with the counter read once, before the loop (old is not used):
\* every core root takes the first cluster number.
MarkValue_Stale(i, old) ==
  IF iv[i] = i
    THEN IF nn[i] >= minT THEN RootId(0) ELSE NoiseMark
    ELSE iv[i]

\* MarkValue without "if (nn[i] >= minT)": every root takes a cluster number.
MarkValue_NoCoreTest(i, old) == IF iv[i] = i THEN RootId(old) ELSE iv[i]

\* iv[i] after the body of root marking for item i, old the value of the
\* counter the atomicInc returns.
MarkValue(i, old) ==
  IF iv[i] = i
    THEN IF nn[i] >= minT THEN RootId(old) ELSE NoiseMark
    ELSE iv[i]

\* Lines 222-231: a track with iv[i] == i is a root; a core root takes the
\* next cluster number, any other root is noise.
MarkRoot(t) ==
  /\ Running(t) /\ pc[t] = "mark" /\ idx[t] < nt
  /\ LET i == idx[t] IN
       /\ iv' = [iv EXCEPT ![i] = MarkValue(i, foundClusters)]
       /\ foundClusters' =
            IF iv[i] = i /\ nn[i] >= minT THEN foundClusters + 1
            ELSE foundClusters
  /\ idx' = [idx EXCEPT ![t] = @ + nw]
  /\ UNCHANGED <<script, input, izt, nn, off, bins, nvFinal, nvIntermediate, pc, m,
                 status>>

Sync232 ==
  /\ SyncAfterLoop("mark", "assertvtx")
  /\ UNCHANGED <<script, input, izt, nn, iv, off, bins, foundClusters, nvFinal,
                 nvIntermediate, m, status>>

\* ClustersOk with <= for <.
ClustersOk_Inclusive == foundClusters <= MAXVTX

\* ALPAKA_ASSERT_OFFLOAD(foundClusters < ::zVertex::MAXVTX)
ClustersOk == foundClusters < MAXVTX

AssertMaxVtx(t) ==
  /\ Running(t) /\ pc[t] = "assertvtx"
  /\ IF ClustersOk
       THEN pc' = [pc EXCEPT ![t] = "prop"] /\ UNCHANGED status
       ELSE status' = "aborted" /\ UNCHANGED pc
  /\ UNCHANGED <<script, input, izt, nn, iv, off, bins, foundClusters, nvFinal,
                 nvIntermediate, idx, m>>

\* propagate the negative id: if (iv[i] >= 0) iv[i] = iv[iv[i]];
Propagate(t) ==
  /\ Running(t) /\ pc[t] = "prop" /\ idx[t] < nt
  /\ LET i == idx[t] IN
       iv' = [iv EXCEPT ![i] = IF iv[i] >= 0 THEN iv[iv[i]] ELSE iv[i]]
  /\ idx' = [idx EXCEPT ![t] = @ + nw]
  /\ UNCHANGED <<script, input, izt, nn, off, bins, foundClusters, nvFinal,
                 nvIntermediate, pc, m, status>>

Sync243 ==
  /\ SyncAfterLoop("prop", "flip")
  /\ UNCHANGED <<script, input, izt, nn, iv, off, bins, foundClusters, nvFinal,
                 nvIntermediate, m, status>>

\* adjust the cluster id: iv[i] = -iv[i] - 1;
Flip(t) ==
  /\ Running(t) /\ pc[t] = "flip" /\ idx[t] < nt
  /\ iv' = [iv EXCEPT ![idx[t]] = FinalId(iv[idx[t]])]
  /\ idx' = [idx EXCEPT ![t] = @ + nw]
  /\ UNCHANGED <<script, input, izt, nn, off, bins, foundClusters, nvFinal,
                 nvIntermediate, pc, m, status>>

\* nvIntermediate = nvFinal = foundClusters, by every thread, and the kernel
\* returns.
Publish(t) ==
  /\ Running(t) /\ LoopDone(t, "flip")
  /\ nvFinal' = foundClusters
  /\ nvIntermediate' = foundClusters
  /\ pc' = [pc EXCEPT ![t] = "done"]
  /\ UNCHANGED <<script, input, izt, nn, iv, off, bins, foundClusters, idx, m, status>>

Next ==
  \/ \E t \in Threads : ZeroHist(t)
  \/ Sync68
  \/ \E t \in Threads : AssertCapacity(t)
  \/ \E t \in Threads : CountItem(t)
  \/ Sync89
  \/ Finalize
  \/ \E t \in Threads : AssertHistSize(t)
  \/ \E t \in Threads : FillItem(t)
  \/ Sync99
  \/ \E t \in Threads : CountNN(t)
  \/ Sync118
  \/ \E t \in Threads : Seed(t)
  \/ Sync140
  \/ \E t \in Threads : ConsolidateLoad(t)
  \/ \E t \in Threads : ConsolidateWalk(t)
  \/ \E t \in Threads : ConsolidateStore(t)
  \/ Sync159
  \/ \E t \in Threads : Edges(t)
  \/ \E t \in Threads : ResetFound(t)
  \/ Sync218
  \/ \E t \in Threads : MarkRoot(t)
  \/ Sync232
  \/ \E t \in Threads : AssertMaxVtx(t)
  \/ \E t \in Threads : Propagate(t)
  \/ Sync243
  \/ \E t \in Threads : Flip(t)
  \/ \E t \in Threads : Publish(t)

Spec == Init /\ [][Next]_vars

\* The kernel has returned on every thread.
Completed == status = "running" /\ \A t \in Threads : pc[t] = "done"

-----------------------------------------------------------------------------
(* What the properties below speak of. *)

\* The statements of the kernel in program order ("load" and "walk" are both
\* the consolidation loop).
PcOrder ==
  <<"zero", "sync68", "assertcap", "count", "finalize", "asserthist", "fill",
    "nn", "seed", "load", "walk", "edges", "sync218", "mark", "assertvtx",
    "prop", "flip", "done">>

Rank(p) == CHOOSE k \in 1 .. Len(PcOrder) : PcOrder[k] = p

\* Every thread is at statement ph or later.
After(ph) == \A t \in Threads : Rank(pc[t]) >= Rank(ph)

\* Every thread is at statement ph or earlier.
NotAfter(ph) == \A t \in Threads : Rank(pc[t]) <= Rank(ph)

Dist(i, j) == Abs(zt[i] - zt[j])

\* The value noise ends with: -(-9998) - 1.
NoiseFinal == FinalId(NoiseMark)

ClusterIds == 0 .. (nvFinal - 1)

Cores == {i \in Items : IsCore(i)}

\* The cores with no core of strictly smaller position within eps.
CoreRoots ==
  {r \in Cores : ~ \E j \in Cores : zt[j] < zt[r] /\ Dist(r, j) <= eps}

\* The cores a non-core item i may be attached to, and the nearest of them.
Qualifying(i) ==
  {j \in Cores : /\ Dist(i, j) <= eps
                 /\ Dist(i, j) * Dist(i, j) <= chi2max * (ezt2[i] + ezt2[j])}

Nearest(i) ==
  {j \in Qualifying(i) : \A k \in Qualifying(i) : Dist(i, j) <= Dist(i, k)}

IsExample ==
  /\ nt = Len(ExampleZt)
  /\ zt = [i \in Items |-> ExampleZt[i + 1]]
  /\ ezt2 = [i \in Items |-> 1]
  /\ minT = 2 /\ eps = 5 /\ errmax = 100 /\ chi2max = 9

-----------------------------------------------------------------------------
(* C1 *)

\* C1 as stated: on the example input the kernel ends with clusterCount = 2,
\* items 0, 1, 2 in one cluster, items 3, 4 in a second one, none noise.
C1_ExampleTwoClusters ==
  (IsExample /\ Completed) =>
    /\ nvFinal = 2
    /\ iv[0] = iv[1] /\ iv[1] = iv[2]
    /\ iv[3] = iv[4]
    /\ iv[0] # iv[3]
    /\ \A i \in Items : iv[i] # NoiseFinal

\* C1, amended: on the example input the kernel ends with clusterCount = 1;
\* items 0, 1, 2 (two neighbours each) share cluster id 0, and items 3, 4 (one
\* neighbour each, fewer than minT = 2) are noise.
C1_ExampleOneCluster ==
  (IsExample /\ Completed) =>
    /\ nvFinal = 1 /\ nvIntermediate = 1
    /\ nn = [i \in Items |-> IF i <= 2 THEN 2 ELSE 1]
    /\ iv[0] = 0 /\ iv[1] = 0 /\ iv[2] = 0
    /\ iv[3] = NoiseFinal /\ iv[4] = NoiseFinal

C1_Witness == IsExample /\ Completed /\ nw = MaxWorkers

-----------------------------------------------------------------------------
(* C2 *)

\* C2: when the kernel has completed, every item's iv is a cluster id in
\* [0, clusterCount) or the noise value, every id in [0, clusterCount) is the
\* id of some item, and clusterCount is the number of distinct ids other than
\* the noise value.
C2_PartitionValid ==
  Completed =>
    /\ \A i \in Items : iv[i] \in ClusterIds \/ iv[i] = NoiseFinal
    /\ \A c \in ClusterIds : \E i \in Items : iv[i] = c
    /\ Cardinality({iv[i] : i \in Items} \ {NoiseFinal}) = nvFinal
    /\ NoiseFinal \notin ClusterIds

\* Completed with two clusters, one of them with two members, and a noise item.
C2_Witness ==
  /\ Completed
  /\ nvFinal >= 1
  /\ \E i, j \in Items : i # j /\ iv[i] = iv[j] /\ iv[i] \in ClusterIds
  /\ \E i \in Items : iv[i] = NoiseFinal

-----------------------------------------------------------------------------
(* C3 *)

\* The kernel run by a single thread: it fills the slots of a bin from the
\* last one down, in increasing item order, so forEachInBins visits the bins
\* in increasing order and the items of one bin in decreasing order.
RefBefore(a, b) ==
  \/ BinOf(zt[a]) < BinOf(zt[b])
  \/ BinOf(zt[a]) = BinOf(zt[b]) /\ a > b

RECURSIVE RefSorted(_)
RefSorted(S) ==
  IF S = {} THEN <<>>
  ELSE LET x == CHOOSE y \in S : \A z \in S \ {y} : RefBefore(y, z)
       IN  <<x>> \o RefSorted(S \ {x})

RefVisit(i) ==
  RefSorted({j \in Items : Abs(BinOf(zt[j]) - BinOf(zt[i])) <= 1})

RefNN(i) ==
  IF ezt2[i] > er2mx THEN 0 ELSE CountLoop(i, RefVisit(i), 1, 0)

RefParent(i) ==
  IF nn[i] < minT THEN i ELSE SeedLoop(i, RefVisit(i), 1, zt[i], i)

RECURSIVE RefRoot(_)
RefRoot(i) == IF RefParent(i) = i THEN i ELSE RefRoot(RefParent(i))

\* iv[i] at the end of "collect edges".
RefIv(i) ==
  IF nn[i] >= minT THEN RefRoot(i)
  ELSE EdgeLoop(i, RefVisit(i), 1, eps, i, [j \in Items |-> RefRoot(j)])

RefNoise(i) == nn[i] < minT /\ RefIv(i) = i

RefCount == Cardinality({i \in Items : nn[i] >= minT /\ RefIv(i) = i})

\* C3: for a fixed input and fixed parameters every schedule and every number
\* of threads gives the partition, the noise set and the clusterCount that one
\* thread gives.
C3_ScheduleIndependent ==
  Completed =>
    /\ nn = [i \in Items |-> RefNN(i)]
    /\ nvFinal = RefCount
    /\ \A i \in Items : (iv[i] = NoiseFinal) <=> RefNoise(i)
    /\ \A i, j \in Items :
         (~RefNoise(i) /\ ~RefNoise(j)) =>
           ((iv[i] = iv[j]) <=> (RefIv(i) = RefIv(j)))

-----------------------------------------------------------------------------
(* C4 *)

\* C4: when the kernel has completed, every item with nn[i] >= minT has a
\* cluster id in [0, clusterCount): a core item is never noise.
C4_CoreNeverNoise ==
  Completed => \A i \in Cores : iv[i] \in ClusterIds /\ iv[i] # NoiseFinal

\* Completed with a core that is a root and a core linked to it.
C4_Witness ==
  /\ Completed
  /\ \E r \in CoreRoots : \E i \in Cores \ CoreRoots : iv[i] = iv[r]

-----------------------------------------------------------------------------
(* C5 *)

RECURSIVE ChainFrom(_)
\* The cores reached from the set S of cores by steps of at most eps from
\* core to core.
ChainFrom(S) ==
  LET T == S \cup {j \in Cores : \E k \in S : Dist(k, j) <= eps}
  IN  IF T = S THEN S ELSE ChainFrom(T)

\* C5: when the kernel has completed, two cores with the same cluster id are
\* joined by a chain of cores in which consecutive ones are within eps, and a
\* non-core item with a cluster id is within eps of a core with that id.
C5_ChainConsistent ==
  Completed =>
    /\ \A i, j \in Cores : iv[i] = iv[j] => j \in ChainFrom({i})
    /\ \A i \in Items \ Cores :
         iv[i] \in ClusterIds =>
           \E j \in Cores : iv[j] = iv[i] /\ Dist(i, j) <= eps

\* Completed with two cores of one cluster farther apart than eps.
C5_Witness ==
  /\ Completed
  /\ \E i, j \in Cores : iv[i] = iv[j] /\ Dist(i, j) > eps

-----------------------------------------------------------------------------
(* C6 *)

\* C6: after path compression (until the roots are marked) two cores within
\* eps of each other have the same iv: the assertion iv[i] == iv[j] of the
\* GPU_DEBUG verification.
C6_NoSplit ==
  (After("edges") /\ NotAfter("sync218")) =>
    \A i, j \in Cores : Dist(i, j) <= eps => iv[i] = iv[j]

-----------------------------------------------------------------------------
(* C7 *)

\* Nothing past the capacity assertion has run.
StoppedAtCapacity ==
  /\ NotAfter("assertcap")
  /\ nn = [i \in Items |-> Unwritten]
  /\ iv = [i \in Items |-> Unwritten]
  /\ bins = [p \in DOMAIN bins |-> Unwritten]
  /\ foundClusters = Unwritten
  /\ nvFinal = Unwritten /\ nvIntermediate = Unwritten

\* C7 as stated: with nt equal to the capacity the kernel is never aborted,
\* and with nt above the capacity nothing past the capacity assertion runs.
C7_CapacityCompletes ==
  /\ nt = HistCapacity => status # "aborted"
  /\ nt > HistCapacity => StoppedAtCapacity

\* C7, amended: with nt equal to the capacity the capacity assertion does not
\* abort the kernel (the only abort is that of the cluster-count assertion,
\* when MAXVTX or more clusters were found); with nt above the capacity
\* nothing past the capacity assertion runs.
C7_CapacityBoundary ==
  /\ (nt = HistCapacity /\ status = "aborted") =>
       /\ After("assertvtx")
       /\ foundClusters >= MAXVTX
  /\ (nt = HistCapacity /\ After("assertcap") /\ NotAfter("assertcap")) =>
       status = "running"
  /\ nt > HistCapacity => StoppedAtCapacity

\* The kernel aborted on an input of capacity + 1 tracks.
C7_Witness == nt = HistCapacity + 1 /\ status = "aborted"

-----------------------------------------------------------------------------
(* C8 *)

\* C8: a published cluster count is in [0, MAXVTX) (and is the number of core
\* roots); with MAXVTX or more core roots nothing is published and no step
\* after the cluster-count assertion runs.
C8_ClusterCountBounded ==
  /\ (nvFinal # Unwritten \/ nvIntermediate # Unwritten) =>
       /\ nvFinal \in 0 .. (MAXVTX - 1)
       /\ nvIntermediate = nvFinal
       /\ nvFinal = Cardinality(CoreRoots)
  /\ (After("seed") /\ Cardinality(CoreRoots) >= MAXVTX) =>
       /\ NotAfter("assertvtx")
       /\ nvFinal = Unwritten /\ nvIntermediate = Unwritten

\* The kernel aborted at the cluster-count assertion.
C8_Witness ==
  /\ status = "aborted"
  /\ After("assertvtx")
  /\ Cardinality(CoreRoots) >= MAXVTX

-----------------------------------------------------------------------------
(* C9 *)

\* C9: an item with ezt2[i] > er2mx is never core, whatever minT is: it does
\* not pass the core rule, no other item's iv points to it before the roots
\* are marked, and root marking gives it no cluster number.
C9_HighVarianceNeverCore ==
  \A i \in Items :
    ezt2[i] > er2mx =>
      /\ After("seed") => nn[i] < minT
      /\ (After("seed") /\ NotAfter("sync218")) =>
           \A j \in Items \ {i} : iv[j] # i
      /\ (After("mark") /\ NotAfter("assertvtx")) =>
           (iv[i] >= 0 \/ iv[i] = NoiseMark)

-----------------------------------------------------------------------------
(* C10 *)

\* C10: a non-core item with a qualifying core (within eps and within the
\* chi2 budget) ends "collect edges" with the iv of a nearest qualifying core
\* and ends the kernel with that core's cluster id; one without stays
\* self-pointing and ends as noise; the clusterCount is the number of core
\* roots, whatever was attached.
C10_EdgeAttachment ==
  /\ (After("sync218") /\ NotAfter("sync218")) =>
       \A i \in Items \ Cores :
         IF Qualifying(i) = {} THEN iv[i] = i
         ELSE \E j \in Nearest(i) : iv[i] = iv[j]
  /\ Completed =>
       /\ \A i \in Items \ Cores :
            IF Qualifying(i) = {} THEN iv[i] = NoiseFinal
            ELSE \E j \in Nearest(i) : iv[i] = iv[j] /\ iv[i] \in ClusterIds
       /\ nvFinal = Cardinality(CoreRoots)

\* Completed with a non-core item between two qualifying cores of different
\* clusters at different distances.
C10_Witness ==
  /\ Completed
  /\ \E i \in Items \ Cores : \E j, k \in Qualifying(i) :
       iv[j] # iv[k] /\ Dist(i, j) < Dist(i, k) /\ iv[i] = iv[j]

-----------------------------------------------------------------------------
(* C11 *)

\* An item with no other item within eps.
Isolated(i) == \A j \in Items \ {i} : Dist(i, j) > eps

\* C11: with minT = 2, when the kernel has completed every item with no other
\* item within eps is noise, and on a single-item input clusterCount is 0.
C11_IsolatedIsNoise ==
  (Completed /\ minT = 2) =>
    /\ \A i \in Items : Isolated(i) => iv[i] = NoiseFinal
    /\ nt = 1 => (nvFinal = 0 /\ nvIntermediate = 0)

\* Completed on a single-item input with minT = 2.
C11_Witness == Completed /\ minT = 2 /\ nt = 1 /\ iv[0] = NoiseFinal

-----------------------------------------------------------------------------
(* C12 *)

\* Every thread has left the consolidation loop and waits at the barrier of
\* line 159.
AtSync159 == status = "running" /\ \A t \in Threads : LoopDone(t, "load")

\* C12: at the barrier that ends path compression iv[iv[i]] = iv[i] for every
\* item i, on every input and every interleaving of the walks.
C12_RootIdempotent ==
  AtSync159 => \A i \in Items : iv[i] \in Items /\ iv[iv[i]] = iv[i]

\* At that barrier, with two threads, an item points to a root farther away
\* than eps: its chain was more than one link long.
C12_Witness ==
  /\ AtSync159 /\ nw = MaxWorkers
  /\ \E i \in Items : iv[i] # i /\ Dist(i, iv[i]) > eps

-----------------------------------------------------------------------------
(* C13 *)

\* The consolidation loop of lines 152-157 run a second time on the iv the
\* first run left: the same statements, by the same threads, between the
\* barrier of line 159 and a barrier of its own.
StartAgain ==
  /\ SyncAfterLoop("load", "load2")
  /\ UNCHANGED <<script, input, izt, nn, iv, off, bins, foundClusters, nvFinal,
                 nvIntermediate, m, status>>

ConsolidateLoadAgain(t) ==
  /\ Running(t) /\ pc[t] = "load2" /\ idx[t] < nt
  /\ m' = [m EXCEPT ![t] = iv[idx[t]]]
  /\ pc' = [pc EXCEPT ![t] = "walk2"]
  /\ UNCHANGED <<script, input, izt, nn, iv, off, bins, foundClusters, nvFinal,
                 nvIntermediate, idx, status>>

\* while (m != iv[m]) m = iv[m]; iv[i] = m;  one test of the loop condition
\* with the hop or the store that follows it.
ConsolidateStepAgain(t) ==
  /\ Running(t) /\ pc[t] = "walk2"
  /\ IF WalkEnds(t)
       THEN /\ iv' = [iv EXCEPT ![idx[t]] = m[t]]
            /\ idx' = [idx EXCEPT ![t] = @ + nw]
            /\ pc' = [pc EXCEPT ![t] = "load2"]
            /\ UNCHANGED m
       ELSE /\ m' = [m EXCEPT ![t] = iv[m[t]]]
            /\ UNCHANGED <<iv, idx, pc>>
  /\ UNCHANGED <<script, input, izt, nn, off, bins, foundClusters, nvFinal,
                 nvIntermediate, status>>

SyncAgain ==
  /\ SyncAfterLoop("load2", "edges")
  /\ UNCHANGED <<script, input, izt, nn, iv, off, bins, foundClusters, nvFinal,
                 nvIntermediate, m, status>>

NextTwice ==
  \/ \E t \in Threads : ZeroHist(t)
  \/ Sync68
  \/ \E t \in Threads : AssertCapacity(t)
  \/ \E t \in Threads : CountItem(t)
  \/ Sync89
  \/ Finalize
  \/ \E t \in Threads : AssertHistSize(t)
  \/ \E t \in Threads : FillItem(t)
  \/ Sync99
  \/ \E t \in Threads : CountNN(t)
  \/ Sync118
  \/ \E t \in Threads : Seed(t)
  \/ Sync140
  \/ \E t \in Threads : ConsolidateLoad(t)
  \/ \E t \in Threads : ConsolidateWalk(t)
  \/ \E t \in Threads : ConsolidateStore(t)
  \/ Sync159
  \/ \E t \in Threads : Edges(t)
  \/ \E t \in Threads : ResetFound(t)
  \/ Sync218
  \/ \E t \in Threads : MarkRoot(t)
  \/ Sync232
  \/ \E t \in Threads : AssertMaxVtx(t)
  \/ \E t \in Threads : Propagate(t)
  \/ Sync243
  \/ \E t \in Threads : Flip(t)
  \/ \E t \in Threads : Publish(t)
  \/ StartAgain
  \/ \E t \in Threads : ConsolidateLoadAgain(t)
  \/ \E t \in Threads : ConsolidateStepAgain(t)
  \/ SyncAgain

\* The kernel with the consolidation loop run once or twice.
SpecTwice == Init /\ [][NextTwice]_vars

\* The second run is under way.
InSecondRun == \E t \in Threads : pc[t] \in {"load2", "walk2"}

\* C13: no step of a second run of the consolidation loop changes iv: every
\* store of the second run writes the value iv[i] already has.
C13_CompressionIdempotent == [][InSecondRun => iv' = iv]_vars

\* The second run has ended, with two threads, on an iv in which an item
\* points to a root farther away than eps.
C13_Witness ==
  /\ status = "running" /\ nw = MaxWorkers
  /\ \A t \in Threads : LoopDone(t, "load2")
  /\ \E i \in Items : iv[i] # i /\ Dist(i, iv[i]) > eps

-----------------------------------------------------------------------------
(* C14 *)

\* The items other than i within eps of it.
Neighbours(i) == {j \in Items \ {i} : Dist(i, j) <= eps}

\* C14: with eps no larger than the bucket width, once neighbour counting has
\* ended nn[i] is the number of items other than i within eps of it, for
\* every item whose variance passes the ceiling test.
C14_ExactNeighbourCount ==
  (After("seed") /\ eps <= BinWidth) =>
    \A i \in Items : ezt2[i] <= er2mx => nn[i] = Cardinality(Neighbours(i))

\* Counting has ended with eps equal to the bucket width on three tracks: one
\* below zero, one exactly eps above it in the next bucket, and a third
\* within eps of both.
C14_Witness ==
  /\ After("seed") /\ eps = BinWidth /\ nt = 3
  /\ \E i, j \in Items :
       /\ zt[i] < 0 /\ zt[j] = zt[i] + eps
       /\ izt[i] # izt[j]
       /\ nn[i] = 2 /\ nn[j] = 2

-----------------------------------------------------------------------------
(* C15 *)

\* Every thread has left the seeding loop and waits at the barrier of line
\* 140.
AtSync140 == status = "running" /\ \A t \in Threads : LoopDone(t, "seed")

\* The cores the seeding of core i may link it to: of strictly smaller
\* position and within eps.
SeedQualifying(i) == {j \in Cores : zt[j] < zt[i] /\ Dist(i, j) <= eps}

\* C15: the iv[i] seeding leaves for a core i is a qualifying core of smallest
\* position (i itself when there is none), and it is the same item for every
\* visiting order: the one the visiting order of a single thread gives.
C15_SeedOrderIndependent ==
  AtSync140 =>
    \A i \in Cores :
      /\ IF SeedQualifying(i) = {} THEN iv[i] = i
         ELSE /\ iv[i] \in SeedQualifying(i)
              /\ \A k \in SeedQualifying(i) : zt[iv[i]] <= zt[k]
      /\ iv[i] = RefParent(i)

-----------------------------------------------------------------------------
(* C16 *)

\* The forest seeding builds, from what it read: nn and the visiting order
\* of the histogram, neither of which changes after seeding.
SeedParent(i) ==
  IF nn[i] < minT THEN i
  ELSE SeedLoop(i, ForEachInBins(izt[i]), 1, zt[i], i)

RECURSIVE SeedRoot(_)
\* The root of the tree of i in that forest.
SeedRoot(i) == IF SeedParent(i) = i THEN i ELSE SeedRoot(SeedParent(i))

\* C16: iv is that forest at the barrier that ends seeding, and at the
\* barrier that ends path compression every iv[i] is the root of the tree of
\* i in it, on every interleaving of the loads, hops and stores.
C16_CompressionFindsRoots ==
  /\ AtSync140 => \A i \in Items : iv[i] = SeedParent(i)
  /\ AtSync159 => \A i \in Items : iv[i] = SeedRoot(i)

\* Path compression has ended, with two threads, on a forest in which the
\* parent of an item is not a root.
C16_Witness ==
  /\ AtSync159 /\ nw = MaxWorkers
  /\ \E i \in Items : SeedParent(SeedParent(i)) # SeedParent(i)
                        /\ iv[i] = SeedRoot(i)

-----------------------------------------------------------------------------
(* C17 *)

\* The item thread t is working on, or will work on next in its loop.
Current(t) == idx[t]

InLoop(t, ph) == status = "running" /\ pc[t] = ph /\ idx[t] < nt

\* The items forEachInBins calls the lambda of item i with.
Visited(i) ==
  LET seq == ForEachInBins(izt[i]) IN {seq[p] : p \in DOMAIN seq}

\* The elements of nn the computation thread t is at reads.
NnReads(t) ==
  LET i == Current(t) IN
    IF InLoop(t, "nn") THEN IF ezt2[i] > er2mx THEN {} ELSE {i}
    ELSE IF InLoop(t, "seed")
      THEN {i} \cup (IF nn[i] < minT THEN {} ELSE Visited(i))
    ELSE IF InLoop(t, "edges")
      THEN {i} \cup (IF nn[i] >= minT THEN {} ELSE Visited(i))
    ELSE IF InLoop(t, "mark") THEN IF iv[i] = i THEN {i} ELSE {}
    ELSE {}

\* The elements of nn it writes.
NnWrites(t) ==
  LET i == Current(t) IN
    IF InLoop(t, "count") THEN {i}
    ELSE IF InLoop(t, "nn") THEN IF ezt2[i] > er2mx THEN {} ELSE {i}
    ELSE {}

\* The elements of iv it reads: in the consolidation loop iv[i] at the load
\* and iv[m] at every test of the walk; in "collect edges" iv[j] of the cores
\* j that pass the tests of the lambda; in the labeling loops iv[i], and
\* iv[iv[i]] when propagating.
IvReads(t) ==
  LET i == Current(t) IN
    IF InLoop(t, "load") THEN {i}
    ELSE IF status = "running" /\ pc[t] = "walk" THEN {m[t]}
    ELSE IF InLoop(t, "edges")
      THEN IF nn[i] >= minT THEN {} ELSE Visited(i) \cap Qualifying(i)
    ELSE IF InLoop(t, "mark") THEN {i}
    ELSE IF InLoop(t, "prop") THEN {i} \cup (IF iv[i] >= 0 THEN {iv[i]} ELSE {})
    ELSE IF InLoop(t, "flip") THEN {i}
    ELSE {}

\* The elements of iv it writes, now or before it moves to its next item.
IvWrites(t) ==
  LET i == Current(t) IN
    IF InLoop(t, "count") THEN {i}
    ELSE IF InLoop(t, "seed")
      THEN IF nn[i] >= minT /\ SeedQualifying(i) # {} THEN {i} ELSE {}
    ELSE IF InLoop(t, "load") THEN {i}
    ELSE IF status = "running" /\ pc[t] = "walk" THEN {i}
    ELSE IF InLoop(t, "edges")
      THEN IF nn[i] < minT /\ Qualifying(i) # {} THEN {i} ELSE {}
    ELSE IF InLoop(t, "mark") THEN IF iv[i] = i THEN {i} ELSE {}
    ELSE IF InLoop(t, "prop") THEN IF iv[i] >= 0 THEN {i} ELSE {}
    ELSE IF InLoop(t, "flip") THEN {i}
    ELSE {}

\* C17: no two threads are at computations of which one writes an element of
\* nn or iv that the other reads (the items of two threads are different
\* items, and both computations are of the same phase).
C17_NoReadWriteOverlap ==
  \A t, u \in Threads :
    t # u =>
      /\ Current(t) # Current(u)
      /\ NnReads(t) \cap NnWrites(u) = {}
      /\ IvReads(t) \cap IvWrites(u) = {}

-----------------------------------------------------------------------------
(* C18 *)

\* Thread t still has a step of the loop it is in to execute.
Pending(t) ==
  \/ pc[t] = "walk"
  \/ /\ pc[t] \in {"count", "fill", "nn", "seed", "load", "edges", "mark",
                    "prop", "flip"}
     /\ idx[t] < nt

\* Rank, as a table.
RankTable == [p \in {PcOrder[k] : k \in DOMAIN PcOrder} |-> Rank(p)]

\* The place of a statement in program order, the two statements of the
\* consolidation loop taken as one.
PhaseRank(p) == IF p = "walk" THEN RankTable["load"] ELSE RankTable[p]

\* The ids root marking has given out so far.
IdsGiven == {i \in Items : iv[i] < 0 /\ iv[i] # NoiseMark}

\* C18: while a thread still has a step of a loop to execute no thread is at
\* a later statement, but for the two statements that follow a loop with no
\* barrier between (foundClusters = 0 after "collect edges", the publication
\* of the count after the last loop); and during root marking the counter is
\* the number of ids given out so far: zero when the first one is allocated.
C18_PhasesInSequence ==
  /\ \A t, u \in Threads :
       Pending(t) =>
         \/ PhaseRank(pc[u]) <= PhaseRank(pc[t])
         \/ pc[t] = "edges" /\ pc[u] = "sync218"
         \/ pc[t] = "flip" /\ pc[u] = "done"
  /\ (status = "running" /\ \E t \in Threads : pc[t] = "mark") =>
       /\ \A u \in Threads : pc[u] = "mark"
       /\ foundClusters = Cardinality(IdsGiven)

\* One thread has left "collect edges" and has reset the counter while the
\* other still has a non-core track to attach to a core.
C18_Witness ==
  /\ status = "running"
  /\ \E t, u \in Threads :
       /\ pc[t] = "sync218"
       /\ InLoop(u, "edges")
       /\ nn[idx[u]] < minT /\ Qualifying(idx[u]) # {}

-----------------------------------------------------------------------------
(* C19 *)

\* The cores that are roots when labeling starts: seeding and path
\* compression leave them pointing to themselves and "collect edges" writes
\* no iv of a core.
RootsAtLabeling == {i \in Cores : SeedRoot(i) = i}

\* Every thread has left the root-marking loop and waits at the barrier of
\* line 232.
AtSync232 == status = "running" /\ \A t \in Threads : LoopDone(t, "mark")

\* C19: throughout root marking the core roots not yet marked and the items
\* given an id are together the core roots labeling started with, and the
\* ids given are 0 .. foundClusters - 1, one item each; at the barrier that
\* ends it every one of those roots has its id; and the clusterCount
\* published is their number.
C19_IdsDense ==
  /\ (status = "running" /\ \A t \in Threads : pc[t] = "mark") =>
       LET given == IdsGiven IN
         /\ given \cup {i \in Cores : iv[i] = i} = RootsAtLabeling
         /\ {FinalId(iv[i]) : i \in given} = 0 .. (foundClusters - 1)
         /\ Cardinality(given) = foundClusters
  /\ AtSync232 =>
       LET roots == RootsAtLabeling IN
         /\ IdsGiven = roots
         /\ foundClusters = Cardinality(roots)
  /\ Completed =>
       LET roots == RootsAtLabeling IN
         /\ nvFinal = Cardinality(roots)
         /\ {iv[i] : i \in roots} = 0 .. (nvFinal - 1)

\* Root marking has ended with two roots numbered against their item order:
\* the thread of the later item incremented the counter first.
C19_Witness ==
  /\ AtSync232 /\ nw = MaxWorkers
  /\ \E i, j \in IdsGiven : i < j /\ FinalId(iv[i]) > FinalId(iv[j])

-----------------------------------------------------------------------------
(* C20 *)

\* Item i has not been through the loop thread i % nw is in.
NotYetDone(i) == idx[i % nw] <= i

\* C20: from the end of root marking until id propagation has ended, every
\* item with iv[i] >= 0 points at a core root that holds its negative
\* encoded id; at the barrier that ends id propagation every iv[i] is
\* negative; and the sign flip finds a negative value in every item it has
\* not yet flipped.
C20_OneHopSuffices ==
  /\ (status = "running" /\ \A t \in Threads : pc[t] \in {"assertvtx", "prop"})
       => LET roots == RootsAtLabeling IN
            \A i \in Items :
              iv[i] >= 0 =>
                /\ iv[i] \in roots
                /\ iv[iv[i]] < 0 /\ iv[iv[i]] # NoiseMark
  /\ (status = "running" /\ \A t \in Threads : LoopDone(t, "prop"))
       => \A i \in Items : iv[i] < 0
  /\ (status = "running" /\ \A t \in Threads : pc[t] = "flip")
       => \A i \in Items : NotYetDone(i) => iv[i] < 0

\* Id propagation has ended, with two threads, on an input with a core that
\* is not a root and a non-core track attached to a cluster.
C20_Witness ==
  /\ status = "running" /\ nw = MaxWorkers
  /\ \A t \in Threads : LoopDone(t, "prop")
  /\ Cores \ RootsAtLabeling # {}
  /\ \E i \in Items \ Cores : iv[i] # NoiseMark

-----------------------------------------------------------------------------
(* C21 *)

\* C21 as stated: when the kernel has completed, the ids of the core roots
\* increase with their item index, whatever the schedule.
C21_IdsFollowIndexOrder ==
  Completed =>
    \A r1, r2 \in RootsAtLabeling : r1 < r2 => iv[r1] < iv[r2]

\* C21, amended: the ids of two core roots are different, and they increase
\* with the item index for two roots of the share of one thread (so for all
\* roots when the block has one thread); between the shares of two threads
\* the order of the atomic increments decides.
C21_IdsFollowThreadOrder ==
  /\ AtSync232 =>
       \A r1, r2 \in RootsAtLabeling :
         r1 < r2 =>
           /\ iv[r1] # iv[r2]
           /\ r1 % nw = r2 % nw => FinalId(iv[r1]) < FinalId(iv[r2])
  /\ Completed =>
       \A r1, r2 \in RootsAtLabeling :
         r1 < r2 =>
           /\ iv[r1] # iv[r2]
           /\ r1 % nw = r2 % nw => iv[r1] < iv[r2]

\* Root marking has ended, with two threads, on three core roots: two of one
\* thread, numbered in item order, and one of the other thread numbered
\* before an item of smaller index.
C21_Witness ==
  /\ AtSync232 /\ nw = MaxWorkers
  /\ \E r1, r2, r3 \in RootsAtLabeling :
       /\ r1 < r2 /\ r1 % nw = r2 % nw
       /\ r3 % nw # r1 % nw
       /\ r1 < r3 /\ FinalId(iv[r3]) < FinalId(iv[r1])

-----------------------------------------------------------------------------
(* C22 *)

\* The non-core items "collect edges" leaves pointing to themselves: those
\* whose lambda accepts no core.
NoiseAtLabeling ==
  LET roots == [j \in Items |-> SeedRoot(j)] IN
    {i \in Items \ Cores :
       EdgeLoop(i, ForEachInBins(izt[i]), 1, eps, i, roots) = i}

\* C22: the non-core items still self-pointing when root marking starts are
\* the items root marking gives the constant -9998, and when the kernel has
\* completed they are the items that hold 9998 - 1, which is not negative and
\* not a cluster id; every other item holds a cluster id.
C22_NoiseSentinel ==
  /\ (status = "running" /\ \A t \in Threads : pc[t] = "mark" /\ idx[t] = t)
       => {i \in Items \ Cores : iv[i] = i} = NoiseAtLabeling
  /\ AtSync232 => {i \in Items : iv[i] = NoiseMark} = NoiseAtLabeling
  /\ Completed =>
       /\ {i \in Items : iv[i] = -NoiseMark - 1} = NoiseAtLabeling
       /\ -NoiseMark - 1 >= 0
       /\ -NoiseMark - 1 \notin ClusterIds
       /\ \A i \in Items \ NoiseAtLabeling : iv[i] \in ClusterIds

\* Completed, with two threads, with a noise item, a core and a non-core item
\* attached to a cluster.
C22_Witness ==
  /\ Completed /\ nw = MaxWorkers
  /\ NoiseAtLabeling # {}
  /\ \E i \in Items \ Cores : iv[i] \in ClusterIds

-----------------------------------------------------------------------------
(* C23 *)

\* Every thread has left the fill loop and waits at the barrier of line 99.
AtSync99 == status = "running" /\ \A t \in Threads : LoopDone(t, "fill")

\* The slots that hold item i.
SlotsOf(i) == {p \in DOMAIN bins : bins[p] = i}

\* The slots of the bucket with key k: after those of the items of smaller
\* key.
BucketSlots(k) ==
  Cardinality({j \in Items : izt[j] < k}) ..
    (Cardinality({j \in Items : izt[j] <= k}) - 1)

\* C23: at the barrier that ends the fill every item is in exactly one slot,
\* which is a slot of its own bucket, no slot holds two items, the number of
\* occupied slots is nt, and so is the size of the histogram.
C23_FillExact ==
  AtSync99 =>
    /\ \A i \in Items :
         /\ Cardinality(SlotsOf(i)) = 1
         /\ SlotsOf(i) \subseteq BucketSlots(izt[i])
    /\ \A p \in DOMAIN bins : bins[p] = Unwritten \/ bins[p] \in Items
    /\ Cardinality({p \in DOMAIN bins : bins[p] # Unwritten}) = nt
    /\ HistSize(off) = nt

\* The fill has ended, with two threads, with two items of one bucket in the
\* order opposite to the one a single thread leaves (it gives the item of
\* smaller index the later slot), and an item in another bucket.
C23_Witness ==
  /\ AtSync99 /\ nw = MaxWorkers
  /\ \E i, j, k \in Items :
       /\ i < j /\ izt[i] = izt[j] /\ izt[k] # izt[i]
       /\ \E p \in SlotsOf(i), q \in SlotsOf(j) : p < q

-----------------------------------------------------------------------------
(* C24 *)

\* The number of calls of the lambda with item j in the query around key.
Calls(key, j) ==
  LET seq == ForEachInBins(key) IN Cardinality({p \in DOMAIN seq : seq[p] = j})

\* C24: during neighbour counting (the histogram is filled, and does not
\* change any more) the query around the key of any item calls the lambda
\* once with every item whose key is at most 1 away, never with an item whose
\* key is farther away, and with nothing else.
C24_QueryExact ==
  (\A t \in Threads : pc[t] = "nn") =>
    \A i \in Items :
      /\ \A j \in Items :
           Calls(izt[i], j) = IF Abs(izt[j] - izt[i]) <= 1 THEN 1 ELSE 0
      /\ \A p \in DOMAIN ForEachInBins(izt[i]) :
           ForEachInBins(izt[i])[p] \in Items

\* The histogram is filled, by two threads, with one item in the first or the
\* last bucket, one in the bucket next to it, and a third one.
C24_Witness ==
  /\ nw = MaxWorkers /\ nt = 3
  /\ \A t \in Threads : pc[t] = "nn"
  /\ \E i, j \in Items :
       /\ izt[i] \in {0, NBins - 1}
       /\ Abs(izt[j] - izt[i]) = 1

-----------------------------------------------------------------------------
(* C25 *)

\* Every thread has left the loop that computes the keys (which are not
\* written again) and is past the barrier of line 89.
KeysComputed == \A t \in Threads : pc[t] = "finalize"

\* C25 as stated: the key of every item is its position times 10 rounded to
\* the nearest integer, clamped to [-128, 127] and shifted by 128.
C25_KeyRounds ==
  KeysComputed =>
    \A i \in Items :
      izt[i] = Clamp(RoundDiv(zt[i], BinWidth), INT8_MIN, INT8_MAX) - INT8_MIN

\* C25, amended: the key of every item is its position times 10 with the
\* fraction dropped (towards zero), clamped to [-128, 127] and shifted by
\* 128: with q = key - 128, q = 127 from position 12.8 on, q = -128 up to
\* position -12.9, and between them q / 10 is the multiple of 0.1 nearest to
\* the position among those not farther from zero; the key is in [0, 255].
C25_KeyTruncates ==
  KeysComputed =>
    \A i \in Items :
      LET q == izt[i] + INT8_MIN
          z == zt[i]
      IN  /\ izt[i] \in 0 .. (NBins - 1)
          /\ IF z >= BinWidth * (INT8_MAX + 1) THEN q = INT8_MAX
             ELSE IF z <= BinWidth * (INT8_MIN - 1) THEN q = INT8_MIN
             ELSE IF z >= 0
               THEN BinWidth * q <= z /\ z < BinWidth * (q + 1)
               ELSE BinWidth * (q - 1) < z /\ z <= BinWidth * q

\* The keys are computed, by two threads, for the positions -0.05 and 0.05,
\* which rounding would send to the buckets below and above that of zero.
C25_Witness ==
  /\ KeysComputed /\ nw = MaxWorkers
  /\ \E i, j \in Items :
       /\ zt[i] = -5 /\ zt[j] = 5
       /\ izt[i] = BinOf(0) /\ izt[j] = BinOf(0)

-----------------------------------------------------------------------------
(* C26 *)

\* Every thread is past the barrier that ends neighbour counting and none has
\* gone further.
CountingDone == status = "running" /\ \A t \in Threads : pc[t] = "seed"

\* C26 as stated: the neighbours of item i are counted exactly when ezt2[i]
\* is at most errmax, the argument as passed; otherwise nn[i] stays 0.
C26_CeilingAsPassed ==
  CountingDone =>
    \A i \in Items :
      nn[i] = IF ezt2[i] <= er2mx_AsPassed THEN Cardinality(Neighbours(i))
              ELSE 0

\* C26, amended: the neighbours of item i are counted exactly when ezt2[i] is
\* at most the square of errmax; otherwise nn[i] stays 0.
C26_CeilingSquared ==
  CountingDone =>
    \A i \in Items :
      nn[i] = IF ezt2[i] <= errmax * errmax THEN Cardinality(Neighbours(i))
              ELSE 0

\* Counting has ended, with two threads, with an item whose variance is
\* above the square of errmax and below errmax, which has a neighbour and
\* nn = 0, and an item below both, with its neighbours counted.
C26_Witness ==
  /\ CountingDone /\ nw = MaxWorkers
  /\ \E i, j \in Items :
       /\ ezt2[i] > errmax * errmax /\ ezt2[i] <= er2mx_AsPassed
       /\ Neighbours(i) # {} /\ nn[i] = 0
       /\ ezt2[j] <= errmax * errmax /\ nn[j] > 0

-----------------------------------------------------------------------------
(* C27 *)

\* Every thread is in the loop ph1 or ph2 or at a statement between them.
Between(ph1, ph2) ==
  \A t \in Threads :
    RankTable[ph1] <= RankTable[pc[t]] /\ RankTable[pc[t]] <= RankTable[ph2]

\* C27: during seeding and path compression iv[i] = i for every non-core
\* item i; during "collect edges" (and until labeling) every core still has
\* the iv path compression left it; and from seeding until labeling every
\* iv[i] is i itself or a core.
C27_NonCoreUntouched ==
  /\ Between("seed", "walk") => \A i \in Items \ Cores : iv[i] = i
  /\ Between("edges", "sync218") => \A j \in Cores : iv[j] = SeedRoot(j)
  /\ Between("seed", "sync218") =>
       \A i \in Items : iv[i] = i \/ iv[i] \in Cores

\* "collect edges" has ended, with two threads, with a non-core item attached
\* to a core and a core that is not a root.
C27_Witness ==
  /\ nw = MaxWorkers /\ status = "running"
  /\ \A t \in Threads : pc[t] = "sync218"
  /\ \E i \in Items \ Cores : iv[i] # i
  /\ \E j \in Cores : iv[j] # j

-----------------------------------------------------------------------------
(* C28 *)

\* The kernel with a scheduler that lets some thread take a step whenever
\* one can.
SpecFair == Spec /\ WF_vars(Next)

\* A thread is in the consolidation loop with a step of it left.
Walking ==
  status = "running" /\ \E t \in Threads : pc[t] \in {"load", "walk"} /\ Pending(t)

\* From the end of seeding to the end of path compression every link leads
\* to a track of strictly smaller position, and no two tracks point to each
\* other.
LinksDescend ==
  Between("load", "walk") =>
    \A i \in Items :
      iv[i] # i => (zt[iv[i]] < zt[i] /\ iv[iv[i]] # i)

\* The track a walk is at is never at a larger position than the track the
\* walk is for.
WalksDescend ==
  \A t \in Threads : pc[t] = "walk" => zt[m[t]] <= zt[idx[t]]

\* After path compression (until labeling) zt[iv[i]] <= zt[i] for every
\* core: the assertion of line 174.
RootsBelow ==
  Between("edges", "sync218") => \A i \in Cores : zt[iv[i]] <= zt[i]

\* C28: links descend in position, so the pointers have no cycle; whenever a
\* thread has a step of the consolidation loop left, every thread eventually
\* is at the barrier that ends it; and after compression no core points to a
\* track of larger position.
C28_WalksTerminate ==
  /\ [](LinksDescend /\ WalksDescend /\ RootsBelow)
  /\ (Walking ~> AtSync159)

\* Two threads are in the consolidation loop, one of them walking from a
\* track whose parent is not a root.
C28_Witness ==
  /\ Walking /\ nw = MaxWorkers
  /\ \E t \in Threads :
       /\ pc[t] = "walk"
       /\ iv[m[t]] # m[t] /\ m[t] # idx[t]

-----------------------------------------------------------------------------
(* C29 *)

\* Non-core track i has a core within eps that passes the chi2 test of line
\* 208 with c for chi2max.
AttachedWith(c, i) ==
  \E j \in Cores :
    Dist(i, j) <= eps /\ Dist(i, j) * Dist(i, j) <= c * (ezt2[i] + ezt2[j])

\* C29: of a completed run, chi2max decides only which non-core tracks are
\* attached.  The neighbour counts (and with them the cores), the partition
\* of the cores and the count of clusters are those given by the positions,
\* the variances, minT, eps, errmax and the slot order of the bins, in which
\* chi2max has no part; a non-core track is attached exactly when a core
\* within eps passes the chi2 test with chi2max.
C29_Chi2OnlyEdges ==
  Completed =>
    /\ \A i \in Items :
         nn[i] = IF ezt2[i] > er2mx THEN 0 ELSE Cardinality(Neighbours(i))
    /\ \A i, j \in Cores : (iv[i] = iv[j]) <=> (SeedRoot(i) = SeedRoot(j))
    /\ \A i \in Cores : iv[i] \in ClusterIds
    /\ nvFinal = Cardinality(CoreRoots)
    /\ \A i \in Items \ Cores :
         IF AttachedWith(chi2max, i) THEN iv[i] \in ClusterIds
         ELSE iv[i] = NoiseFinal

\* A completed run in which a non-core track is noise that the other value
\* of chi2max attaches to a cluster.
C29_Witness ==
  /\ Completed
  /\ \E i \in Items \ Cores :
       /\ iv[i] = NoiseFinal
       /\ \E c \in Chi2Values : AttachedWith(c, i)

-----------------------------------------------------------------------------
(* C30 *)

\* (R1, L1) <= (r, l) in lexicographic order, a field 0 being no bound.
LowerOk(r, l) ==
  IF min_run = 0 THEN min_lumi = 0 \/ min_lumi <= l
  ELSE min_run < r \/ (min_run = r /\ (min_lumi = 0 \/ min_lumi <= l))

\* (r, l) <= (R2, L2) in lexicographic order, a field 0 being no bound.
UpperOk(r, l) ==
  IF max_run = 0 THEN max_lumi = 0 \/ l <= max_lumi
  ELSE r < max_run \/ (r = max_run /\ (max_lumi = 0 \/ l <= max_lumi))

\* C30: is_in_range accepts (run, lumi) exactly when it is between the two
\* ends of the range in lexicographic order, unbounded fields ignored.
C30_RangeLexicographic ==
  step = "checked" => (inRange <=> (LowerOk(run, lumi) /\ UpperOk(run, lumi)))

====
